---- MODULE Spec2Model ----
(***************************************************************************)
(* Model of the trigger scan of graph-node's Ethereum adapter:             *)
(* EthereumAdapter::blocks_with_triggers                                   *)
(* (graph/src/components/ethereum/adapter.rs) and the filter values it     *)
(* consumes.                                                               *)
(*                                                                         *)
(* One behaviour is one call of blocks_with_triggers: the call launches    *)
(* its sub-scans, the upstream node answers them in any order, the joined  *)
(* future collates the triggers, load_blocks streams the blocks back and   *)
(* the final map sorts them.                                               *)
(***************************************************************************)
EXTENDS Integers, Sequences, FiniteSets, TLC

\* ------------------------------------------------------------------------
\* Bounds
\* ------------------------------------------------------------------------

\* Block numbers known to the upstream node are 1..MaxBlock.
MaxBlock == 2

\* Total number of triggers the upstream node returns over all sub-scans.
MaxTriggers == 2

\* ------------------------------------------------------------------------
\* Universes
\* ------------------------------------------------------------------------

Numbers == 1..MaxBlock

\* A block hash identifies one block; the block fixes its own number. Every
\* number has its block on the main chain; the most recent number also has an
\* uncled block, which the node may still report after a reorg.
Hashes == {<<n, "main">> : n \in Numbers} \cup {<<MaxBlock, "uncle">>}

HashNumber(h) == h[1]

\* Placeholder held by to_hash while no hash has been reported.
NoHash == <<0, "none">>

Addresses == {"a1"}

\* The (up to) four futures pushed on trigger_futs.
Scans == {"logs", "calls", "block_ptrs", "block_calls"}

\* ------------------------------------------------------------------------
\* Filters
\* ------------------------------------------------------------------------

\* Contract addresses and event signatures of the log filters.
Contracts == {"a1", "a2", "a3"}

EventSigs == {"e1", "e2"}

\* LogFilterNode
ContractNode(a) == <<"Contract", a>>

EventNode(e) == <<"Event", e>>

\* GraphMap<LogFilterNode, (), Undirected>: the nodes and the edges in
\* insertion order (both are index maps); an edge is <<contract, event>>, the
\* undirected edge key with the smaller node (a Contract) first.
EmptyGraph == [nodes |-> <<>>, edges |-> <<>>]

SeqRange(q) == {q[i] : i \in DOMAIN q}

\* GraphMap::add_node: a node already present keeps its place.
AddNode(nodes, n) == IF n \in SeqRange(nodes) THEN nodes ELSE Append(nodes, n)

\* GraphMap::add_edge(Contract(c), Event(e), ())
AddEdge(g, c, e) ==
    [nodes |-> AddNode(AddNode(g.nodes, ContractNode(c)), EventNode(e)),
     edges |-> IF <<c, e>> \in SeqRange(g.edges) THEN g.edges
               ELSE Append(g.edges, <<c, e>>)]

\* GraphMap::all_edges, as a set
EdgeSet(g) == SeqRange(g.edges)

\* GraphMap::edge_count
EdgeCount(g) == Len(g.edges)

\* GraphMap::neighbors(n), as a set of nodes
Neighbors(g, n) ==
    {EventNode(ed[2]) : ed \in {x \in EdgeSet(g) : ContractNode(x[1]) = n}}
      \cup {ContractNode(ed[1]) : ed \in {x \in EdgeSet(g) : EventNode(x[2]) = n}}

\* EthereumLogFilter::default()
EmptyLogFilter ==
    [contracts_and_events_graph |-> EmptyGraph, wildcard_events |-> {}]

\* Log filters the scan is called with.
ScanLogFilters ==
    {EmptyLogFilter,
     [contracts_and_events_graph |-> AddEdge(EmptyGraph, "a1", "e1"),
      wildcard_events |-> {}]}

\* EthereumLogFilter::is_empty
LogFilterIsEmpty(f) ==
    EdgeCount(f.contracts_and_events_graph) = 0 /\ f.wildcard_events = {}

\* A data source: source.address ("none" when absent), source.start_block,
\* the topic0 of each of mapping.event_handlers, the filter of each of
\* mapping.block_handlers ("none" when absent, or "Call").
DataSource(a, sb, evs, bhs) ==
    [address |-> a, start_block |-> sb, event_handlers |-> evs,
     block_handlers |-> bhs]

\* Lists without repetition over a set, of every length.
RECURSIVE DistinctSeqs(_)
DistinctSeqs(S) ==
    {<<>>} \cup UNION {{<<x>> \o q : q \in DistinctSeqs(S \ {x})} : x \in S}

\* The data sources the log filters are built from.
LogDataSources ==
    {DataSource(a, 1, evs, <<>>) :
        a \in Contracts \cup {"none"}, evs \in DistinctSeqs(EventSigs)}

\* The inner loop of from_data_sources: one data source's event handlers.
\* add_edge of an edge the graph already has leaves the graph as it is.
RECURSIVE AddEventHandlers(_, _, _)
AddEventHandlers(this, address, evs) ==
    IF evs = <<>> THEN this
    ELSE IF address = "none"
    THEN AddEventHandlers(
           [this EXCEPT !.wildcard_events = @ \cup {Head(evs)}],
           address, Tail(evs))
    ELSE IF <<address, Head(evs)>> \in EdgeSet(this.contracts_and_events_graph)
    THEN AddEventHandlers(this, address, Tail(evs))
    ELSE AddEventHandlers(
           [this EXCEPT !.contracts_and_events_graph =
                           AddEdge(@, address, Head(evs))],
           address, Tail(evs))

\* EthereumLogFilter::from_data_sources; a data source whose handlers add
\* nothing leaves the filter as it is.
RECURSIVE LogFilterFromDataSourcesFrom(_, _)
LogFilterFromDataSourcesFrom(this, dss) ==
    IF dss = <<>> THEN this
    ELSE LET next == AddEventHandlers(this, Head(dss).address,
                                      Head(dss).event_handlers)
         IN IF next = this THEN LogFilterFromDataSourcesFrom(this, Tail(dss))
            ELSE LogFilterFromDataSourcesFrom(next, Tail(dss))

\* Variant: data sources without an address are skipped, as the call and
\* block filters skip them.
LogFilterFromAddressedDataSources(dss) ==
    LogFilterFromDataSourcesFrom(
        EmptyLogFilter, SelectSeq(dss, LAMBDA ds : ds.address # "none"))

LogFilterFromDataSources(dss) ==
    LogFilterFromDataSourcesFrom(EmptyLogFilter, dss)

\* The loop of extend: add_edge for every edge of the other graph; an edge
\* the graph already has leaves the graph as it is.
RECURSIVE AddEdges(_, _)
AddEdges(g, eds) ==
    IF eds = <<>> THEN g
    ELSE IF Head(eds) \in EdgeSet(g) THEN AddEdges(g, Tail(eds))
    ELSE AddEdges(AddEdge(g, Head(eds)[1], Head(eds)[2]), Tail(eds))

\* Variant: the wildcard events of the other filter replace this filter's.
LogFilterExtendReplacing(self, other) ==
    [contracts_and_events_graph |->
        AddEdges(self.contracts_and_events_graph,
                 other.contracts_and_events_graph.edges),
     wildcard_events |-> other.wildcard_events]

\* EthereumLogFilter::extend
LogFilterExtend(self, other) ==
    [contracts_and_events_graph |->
        AddEdges(self.contracts_and_events_graph,
                 other.contracts_and_events_graph.edges),
     wildcard_events |-> self.wildcard_events \cup other.wildcard_events]

\* A Log: its address and its topics.
Logs ==
    [address : Contracts,
     topics : {<<>>} \cup {<<e>> : e \in EventSigs}
                \cup {<<"e1", "e2">>, <<"e2", "e1">>}]

\* Variant: the wildcard events are not consulted.
LogFilterMatchesNoWildcard(f, log) ==
    IF log.topics = <<>> THEN FALSE
    ELSE LET sig      == Head(log.topics)
             contract == ContractNode(log.address)
             event    == EventNode(sig)
         IN \E ed \in EdgeSet(f.contracts_and_events_graph) :
               LET s == ContractNode(ed[1])
                   t == EventNode(ed[2])
               IN (s = contract /\ t = event) \/ (t = contract /\ s = event)

\* EthereumLogFilter::matches
LogFilterMatches(f, log) ==
    IF log.topics = <<>> THEN FALSE
    ELSE LET sig      == Head(log.topics)
             contract == ContractNode(log.address)
             event    == EventNode(sig)
         IN \/ \E ed \in EdgeSet(f.contracts_and_events_graph) :
                 LET s == ContractNode(ed[1])
                     t == EventNode(ed[2])
                 IN (s = contract /\ t = event) \/ (t = contract /\ s = event)
            \/ sig \in f.wildcard_events

\* The number of neighbours of node n: g.neighbors(n).count()
Degree(g, n) == Cardinality(Neighbors(g, n))

\* Variant: g.nodes().filter(has an edge).min_by_key(degree), of the nodes of
\* least degree that have an edge, the first one.
LeastVertex(g) ==
    LET least == CHOOSE i \in DOMAIN g.nodes :
                    /\ Degree(g, g.nodes[i]) > 0
                    /\ \A j \in DOMAIN g.nodes :
                          \/ Degree(g, g.nodes[j]) = 0
                          \/ Degree(g, g.nodes[j]) > Degree(g, g.nodes[i])
                          \/ (Degree(g, g.nodes[j]) = Degree(g, g.nodes[i])
                                /\ i <= j)
    IN g.nodes[least]

\* Variant: g.nodes().find(|&n| g.neighbors(n).count() > 0), the first node
\* that has an edge.
FirstVertex(g) ==
    LET first == CHOOSE i \in DOMAIN g.nodes :
                    /\ Degree(g, g.nodes[i]) > 0
                    /\ \A j \in 1..(i - 1) : Degree(g, g.nodes[j]) = 0
    IN g.nodes[first]

\* g.nodes().max_by_key(|&n| g.neighbors(n).count()): of the nodes of maximum
\* degree, the last one in the iteration order of the node map.
MaxVertex(g) ==
    LET best == CHOOSE i \in DOMAIN g.nodes :
                   \A j \in DOMAIN g.nodes :
                      \/ Degree(g, g.nodes[j]) < Degree(g, g.nodes[i])
                      \/ (Degree(g, g.nodes[j]) = Degree(g, g.nodes[i]) /\ j <= i)
    IN g.nodes[best]

\* Variant: every edge goes with the removed node (the graph is cleared).
RemoveNodeAndAllEdges(g, n) ==
    [nodes |-> SelectSeq(g.nodes, LAMBDA m : m # n), edges |-> <<>>]

\* GraphMap::remove_node: swap_remove of the node (the last node takes its
\* place) and removal of its incident edges. The order of the edges left is
\* not observed by the planner.
RemoveNode(g, n) ==
    LET i    == CHOOSE k \in DOMAIN g.nodes : g.nodes[k] = n
        last == Len(g.nodes)
    IN [nodes |-> [k \in 1..(last - 1) |->
                      IF k = i THEN g.nodes[last] ELSE g.nodes[k]],
        edges |-> SelectSeq(g.edges,
                     LAMBDA ed : ContractNode(ed[1]) # n /\ EventNode(ed[2]) # n)]

\* EthGetLogsFilter: the members of its two Vecs (their order is not
\* modelled; neither Vec holds a member twice).
Window(cs, es) == [contracts |-> cs, event_signatures |-> es]

\* Variant: the window is started empty, without max_vertex itself.
WindowForNeighboursOnly(g, v) ==
    Window({n[2] : n \in {m \in Neighbors(g, v) : m[1] = "Contract"}},
           {n[2] : n \in {m \in Neighbors(g, v) : m[1] = "Event"}})

\* Variant: nodes with the same kind as max_vertex that share a neighbour
\* with it are merged into its window.
WindowForMerged(g, v) ==
    LET near == {v} \cup UNION {Neighbors(g, n) : n \in Neighbors(g, v)}
                    \cup Neighbors(g, v)
    IN Window({n[2] : n \in {m \in near : m[1] = "Contract"}},
              {n[2] : n \in {m \in near : m[1] = "Event"}})

\* The window of one loop iteration: max_vertex on its side, its neighbours
\* pushed on theirs.
WindowFor(g, v) ==
    Window((IF v[1] = "Contract" THEN {v[2]} ELSE {})
              \cup {n[2] : n \in {m \in Neighbors(g, v) : m[1] = "Contract"}},
           (IF v[1] = "Event" THEN {v[2]} ELSE {})
              \cup {n[2] : n \in {m \in Neighbors(g, v) : m[1] = "Event"}})

\* The two assertions of the loop.
WindowAssertions(w) ==
    /\ Cardinality(w.contracts) > 0 /\ Cardinality(w.event_signatures) > 0
    /\ Cardinality(w.contracts) = 1 \/ Cardinality(w.event_signatures) = 1

\* The loop of eth_get_logs_filters; a failed assertion ends it.
RECURSIVE PlanLoop(_, _)
PlanLoop(g, filters) ==
    IF EdgeCount(g) = 0 THEN [windows |-> filters, panicked |-> FALSE]
    ELSE LET max_vertex == MaxVertex(g)
             filter     == WindowFor(g, max_vertex)
         IN IF ~WindowAssertions(filter)
            THEN [windows |-> filters, panicked |-> TRUE]
            ELSE PlanLoop(RemoveNode(g, max_vertex), Append(filters, filter))

\* EthereumLogFilter::eth_get_logs_filters; wildcards lists the wildcard
\* events in the order the HashSet yields them.
EthGetLogsFilters(f, wildcards) ==
    PlanLoop(f.contracts_and_events_graph,
             [i \in DOMAIN wildcards |-> Window({}, {wildcards[i]})])

\* Call filters: a map address -> (start_block, selectors), here a function
\* on the set of keyed addresses.
EmptyCallFilter == [a \in {} |-> <<0, {}>>]

ScanCallFilters ==
    {EmptyCallFilter, [a \in {"a1"} |-> <<1, {"s1"}>>]}

\* EthereumCallFilter::is_empty
CallFilterIsEmpty(f) == DOMAIN f = {}

\* The addresses, start blocks and 4-byte selectors call filters are built
\* from, and the (start_block, address, selector) items of from_iter.
CallAddresses == {"a1", "a2"}

CallStartBlocks == {1, 2}

Selectors == {<<0, 0, 0, 0>>, <<1, 1, 1, 1>>}

CallItems == CallStartBlocks \X CallAddresses \X Selectors

MaxItems == 2

MaxMerges == 1

ItemSeqs == UNION {[1..n -> CallItems] : n \in 0..MaxItems}

\* One round of the for_each of from_iter.
FromIterStep(lookup, item) ==
    LET start_block == item[1]
        address == item[2]
        function_signature == item[3]
        inserted ==
            IF address \in DOMAIN lookup
            THEN lookup
            ELSE [a \in DOMAIN lookup \cup {address} |->
                    IF a = address THEN <<start_block, {}>> ELSE lookup[a]]
    IN  [inserted EXCEPT ![address] =
            <<IF @[1] > start_block THEN start_block ELSE @[1],
              @[2] \cup {function_signature}>>]

RECURSIVE FromIterFrom(_, _)
FromIterFrom(lookup, items) ==
    IF items = <<>>
    THEN lookup
    ELSE FromIterFrom(FromIterStep(lookup, Head(items)), Tail(items))

\* impl FromIterator<(u64, Address, [u8; 4])> for EthereumCallFilter
CallFilterFromIter(items) == FromIterFrom(EmptyCallFilter, items)

\* Variant: a shared address takes the proposed start block as it is.
CallFilterExtendProposedStart(self, other) ==
    [a \in DOMAIN self \cup DOMAIN other |->
        IF a \in DOMAIN other
        THEN IF a \in DOMAIN self
             THEN <<other[a][1], self[a][2] \cup other[a][2]>>
             ELSE other[a]
        ELSE self[a]]

\* EthereumCallFilter::extend
CallFilterExtend(self, other) ==
    [a \in DOMAIN self \cup DOMAIN other |->
        IF a \in DOMAIN other
        THEN IF a \in DOMAIN self
             THEN <<IF other[a][1] < self[a][1] THEN other[a][1] ELSE self[a][1],
                    self[a][2] \cup other[a][2]>>
             ELSE other[a]
        ELSE self[a]]

\* Calls: the callee and the input bytes.
CallInputs ==
    {<<>>, <<1, 1>>, <<0, 0, 0, 0>>, <<1, 1, 1, 1>>, <<1, 1, 1, 1, 7>>,
     <<2, 2, 2, 2>>}

Calls == [to : CallAddresses, input : CallInputs]

NoCall == [to |-> "none", input |-> <<>>]

\* EthereumCallFilter::matches: "true", "false", or "panic" when the slice
\* call.input.0[..4] is out of range.
CallFilterMatches(f, c) ==
    IF c.to \notin DOMAIN f
    THEN "false"
    ELSE IF f[c.to][2] = {}
    THEN "true"
    ELSE IF Len(c.input) < 4
    THEN "panic"
    ELSE IF SubSeq(c.input, 1, 4) \in f[c.to][2]
    THEN "true"
    ELSE "false"

\* EthereumBlockFilter: contract_addresses is a set of <<start_block, address>>.
DefaultBlockFilter == [contract_addresses |-> {}, trigger_every_block |-> FALSE]

BlockAddresses == {"a1", "a2"}

\* The addresses a set of <<start_block, address>> entries names.
AddressesOf(entries) == {e[2] : e \in entries}

\* For each address of the entries, one of its entries' start blocks: the
\* entry an iteration over the HashSet meets first (or last).
EntryChoices(entries) ==
    {ch \in [AddressesOf(entries) -> Numbers] :
        \A a \in AddressesOf(entries) : <<ch[a], a>> \in entries}

\* EthereumBlockFilter::extend; found[a] is the start block of the entry of
\* other that find() returns for address a.
BlockFilterExtend(self, other, found) ==
    [trigger_every_block |->
        self.trigger_every_block \/ other.trigger_every_block,
     contract_addresses |->
        {IF e[2] \in DOMAIN found
         THEN <<IF found[e[2]] < e[1] THEN found[e[2]] ELSE e[1], e[2]>>
         ELSE e : e \in self.contract_addresses}]

\* The block handlers of a data source, each by its filter: "Call" or "none".
BlockHandlerLists == {<<>>, <<"Call">>, <<"none">>, <<"Call", "none">>}

BlockDataSources ==
    {DataSource(a, sb, <<>>, bhs) :
        a \in BlockAddresses \cup {"none"}, sb \in Numbers,
        bhs \in BlockHandlerLists}

MaxDataSources == 2

BlockDataSourceLists ==
    UNION {[1..n -> BlockDataSources] : n \in 0..MaxDataSources}

\* The filter from_data_sources extends the accumulator with for one data
\* source.
BlockFilterOfDataSource(ds) ==
    LET has_block_handler_with_call_filter ==
            \E i \in DOMAIN ds.block_handlers : ds.block_handlers[i] = "Call"
        has_block_handler_without_filter ==
            \E i \in DOMAIN ds.block_handlers : ds.block_handlers[i] = "none"
    IN  [trigger_every_block |-> has_block_handler_without_filter,
         contract_addresses |->
            IF has_block_handler_with_call_filter
            THEN {<<ds.start_block, ds.address>>}
            ELSE {}]

RECURSIVE BlockFilterFromDataSourcesFrom(_, _)
BlockFilterFromDataSourcesFrom(filter_opt, dss) ==
    IF dss = <<>>
    THEN filter_opt
    ELSE IF Head(dss).address = "none"
    THEN BlockFilterFromDataSourcesFrom(filter_opt, Tail(dss))
    ELSE LET other == BlockFilterOfDataSource(Head(dss))
             found == CHOOSE ch \in EntryChoices(other.contract_addresses) : TRUE
         IN  BlockFilterFromDataSourcesFrom(
                 BlockFilterExtend(filter_opt, other, found), Tail(dss))

\* EthereumBlockFilter::from_data_sources
BlockFilterFromDataSources(dss) ==
    BlockFilterFromDataSourcesFrom(DefaultBlockFilter, dss)

\* impl From<EthereumBlockFilter> for EthereumCallFilter; last[a] is the
\* start block of the entry for a that is collected last into the HashMap.
CallFilterFromBlockFilter(bf, last) ==
    [a \in AddressesOf(bf.contract_addresses) |-> <<last[a], {}>>]

ScanBlockFilters ==
    [contract_addresses : {{}, {<<1, "a1">>}}, trigger_every_block : BOOLEAN]

\* ------------------------------------------------------------------------
\* Triggers
\* ------------------------------------------------------------------------

\* Variant: the log scan is pushed without consulting log_filter.is_empty().
LaunchedAlways(lf, cf, bf) ==
    {"logs"}
      \cup (IF ~CallFilterIsEmpty(cf) THEN {"calls"} ELSE {})
      \cup (IF bf.trigger_every_block THEN {"block_ptrs"}
            ELSE IF bf.contract_addresses # {} THEN {"block_calls"} ELSE {})

\* Variant: the derived call scan is pushed by an `if` of its own, not by
\* the `else if` of the trigger_every_block test.
LaunchedBothBlockScans(lf, cf, bf) ==
    (IF ~LogFilterIsEmpty(lf) THEN {"logs"} ELSE {})
      \cup (IF ~CallFilterIsEmpty(cf) THEN {"calls"} ELSE {})
      \cup (IF bf.trigger_every_block THEN {"block_ptrs"} ELSE {})
      \cup (IF bf.contract_addresses # {} THEN {"block_calls"} ELSE {})

\* The sub-scans an invocation pushes on trigger_futs.
Launched(lf, cf, bf) ==
    (IF ~LogFilterIsEmpty(lf) THEN {"logs"} ELSE {})
      \cup (IF ~CallFilterIsEmpty(cf) THEN {"calls"} ELSE {})
      \cup (IF bf.trigger_every_block THEN {"block_ptrs"}
            ELSE IF bf.contract_addresses # {} THEN {"block_calls"} ELSE {})

\* Variant: the pointers of block_range_to_ptrs are tagged WithCallTo.
TriggerOfMislabelled(s, h, a, i) ==
    [kind  |-> CASE s = "logs" -> "Log" [] s = "calls" -> "Call" [] OTHER -> "Block",
     ttype |-> CASE s = "block_ptrs" -> "WithCallTo"
                 [] s = "block_calls" -> "WithCallTo"
                 [] OTHER -> "None",
     hash  |-> h,
     addr  |-> IF s = "block_calls" THEN a ELSE "none",
     id    |-> <<s, i>>]

\* The trigger a sub-scan builds from one upstream item found in block h:
\* id is the item's position in the sub-scan's answer, addr the callee of a
\* call found for the derived call filter.
TriggerOf(s, h, a, i) ==
    [kind  |-> CASE s = "logs" -> "Log" [] s = "calls" -> "Call" [] OTHER -> "Block",
     ttype |-> CASE s = "block_ptrs" -> "Every"
                 [] s = "block_calls" -> "WithCallTo"
                 [] OTHER -> "None",
     hash  |-> h,
     addr  |-> IF s = "block_calls" THEN a ELSE "none",
     id    |-> <<s, i>>]

\* EthereumTrigger::block_number / block_hash
block_number(t) == HashNumber(t.hash)

block_hash(t) == t.hash

\* ------------------------------------------------------------------------
\* Collation helpers
\* ------------------------------------------------------------------------

\* Variant: map.insert(t.block_number(), vec![t])
PushEntryReplacing(map, t) ==
    LET n == block_number(t)
    IN [m \in DOMAIN map \cup {n} |-> IF m = n THEN <<t>> ELSE map[m]]

\* Variant: map.entry(t.block_number()).or_default() without the push
PushEntryNoPush(map, t) ==
    LET n == block_number(t)
    IN [m \in DOMAIN map \cup {n} |->
          IF m \in DOMAIN map THEN map[m] ELSE <<>>]

\* Variant: map.entry(t.block_number()).or_default().insert(0, t)
PushEntryAtFront(map, t) ==
    LET n   == block_number(t)
        cur == IF n \in DOMAIN map THEN map[n] ELSE <<>>
    IN [m \in DOMAIN map \cup {n} |-> IF m = n THEN <<t>> \o cur ELSE map[m]]

\* The fold closure: map.entry(t.block_number()).or_default().push(t)
PushEntry(map, t) ==
    LET n   == block_number(t)
        cur == IF n \in DOMAIN map THEN map[n] ELSE <<>>
    IN [m \in DOMAIN map \cup {n} |-> IF m = n THEN Append(cur, t) ELSE map[m]]

\* triggers.into_iter().fold(HashMap::new(), ..)
RECURSIVE FoldTriggers(_, _)
FoldTriggers(map, ts) ==
    IF ts = <<>> THEN map
    ELSE FoldTriggers(PushEntry(map, Head(ts)), Tail(ts))

\* Variant: block_hashes starts as HashSet::new()
TriggerHashesNone(ts) == {}

\* triggers.iter().map(EthereumTrigger::block_hash).collect()
TriggerHashes(ts) == {block_hash(ts[i]) : i \in DOMAIN ts}

\* triggers_by_block.entry(to).or_insert(Vec::new())
OrInsertEmpty(map, n) ==
    [m \in DOMAIN map \cup {n} |-> IF m \in DOMAIN map THEN map[m] ELSE <<>>]

\* triggers_by_block.remove(&n)
RemoveKey(map, n) == [m \in DOMAIN map \ {n} |-> map[m]]

\* EthereumBlockWithTriggers::new(triggers, BlockFinality::Final(block))
EthereumBlockWithTriggers_new(ts, h) ==
    [number |-> HashNumber(h), hash |-> h, triggers |-> ts]

\* blocks.sort_by_key(|block| block.ethereum_block.number()): a stable sort.
RECURSIVE InsertByNumber(_, _)
InsertByNumber(sorted, b) ==
    IF sorted = <<>> THEN <<b>>
    ELSE IF sorted[Len(sorted)].number <= b.number THEN Append(sorted, b)
    ELSE Append(InsertByNumber(SubSeq(sorted, 1, Len(sorted) - 1), b),
                sorted[Len(sorted)])

RECURSIVE SortFrom(_, _)
SortFrom(sorted, rest) ==
    IF rest = <<>> THEN sorted
    ELSE SortFrom(InsertByNumber(sorted, Head(rest)), Tail(rest))

\* Variant: the blocks stay in arrival order.
NotSorted(bs) == bs

SortByNumber(bs) == SortFrom(<<>>, bs)

\* ------------------------------------------------------------------------
\* State
\* ------------------------------------------------------------------------

VARIABLES
    pc,                \* "start", "scanning", "loading", "done"
    from, to,          \* the requested range
    log_filter, call_filter, block_filter,
    launched,          \* sub-scans pushed on trigger_futs
    status,            \* per sub-scan: "idle", "pending", "ok", "err"
    produced,          \* per sub-scan: the triggers its answer produced
    hash_status,       \* the lookup of `to`: "pending", "err", "none", "some"
    to_hash,           \* the hash reported for `to` when hash_status = "some"
    triggers,          \* concat2's accumulator
    block_hashes,      \* the set handed to load_blocks
    triggers_by_block, \* number -> triggers
    load_pending,      \* hashes load_blocks has not yielded yet
    load_requests,     \* number of load_blocks calls
    blocks,            \* blocks collected from the load_blocks stream
    outcome,           \* "pending", "ok", "err", "panic"
    result             \* the Vec<EthereumBlockWithTriggers> returned on "ok"

\* The log filter algebra: three filters, their sums, a log matched
\* against the sum and the windows planned for it.
VARIABLES
    lf_pc,             \* "idle", "built", "merged", "matched", "planned"
    lf_a, lf_b, lf_c,  \* three log filters
    lf_sum,            \* the results of extend on them
    log,               \* the log last given to matches
    log_matched,       \* what matches returned for it
    windows,           \* the EthGetLogsFilters emitted, in order
    plan_panicked,     \* an assertion of eth_get_logs_filters failed
    lf_dss,            \* the data sources given to from_data_sources
    windows_rev        \* the windows emitted for the filter merged in the
                       \* opposite order

\* The call filter algebra: a filter built by from_iter, extended, and a
\* call matched against it.
VARIABLES
    cf_pc,             \* "idle", "new", "ready", "matched"
    cf,                \* the call filter
    cf_base,           \* the filter before the last extend
    cf_other,          \* the filter last given to extend
    cf_contrib,        \* every item contributed to cf so far (history)
    cf_merges,         \* the number of extends so far
    call,              \* the call last given to matches
    call_result        \* what matches did: "true", "false", "panic"

\* The block filter algebra: two filters and the data sources one is built
\* from.
VARIABLES
    bf_pc,             \* "idle", "new", "extended", "converted", "built"
    bf_a, bf_b,        \* two block filters
    bf_dss,            \* the data sources given to from_data_sources
    bf_ext,            \* bf_a after bf_a.extend(bf_b)
    bf_call,           \* EthereumCallFilter::from(bf_ext)
    bf_built           \* the result of from_data_sources(bf_dss)

scanVars == <<pc, from, to, log_filter, call_filter, block_filter, launched,
              status, produced, hash_status, to_hash, triggers,
              block_hashes,
              triggers_by_block, load_pending, load_requests, blocks, outcome,
              result>>

logVars == <<lf_pc, lf_a, lf_b, lf_c, lf_sum, log, log_matched, windows,
             plan_panicked, lf_dss, windows_rev>>

callVars == <<cf_pc, cf, cf_base, cf_other, cf_contrib, cf_merges, call,
              call_result>>

blockVars == <<bf_pc, bf_a, bf_b, bf_dss, bf_ext, bf_call, bf_built>>

algebraVars == <<logVars, callVars, blockVars>>

vars == <<scanVars, algebraVars>>

hashVars == <<hash_status, to_hash>>

inputVars == <<from, to, log_filter, call_filter, block_filter>>

loadVars == <<block_hashes, triggers_by_block, load_pending, load_requests,
              blocks>>

\* The results of extend before it has run.
NoSum ==
    [ab_c |-> EmptyLogFilter, a_bc |-> EmptyLogFilter, ab |-> EmptyLogFilter,
     ba |-> EmptyLogFilter, aa |-> EmptyLogFilter, cb_a |-> EmptyLogFilter]

NoLog == [address |-> "none", topics |-> <<>>]

\* No log filter is being worked on.
LogIdle ==
    /\ lf_pc = "idle"
    /\ lf_a = EmptyLogFilter
    /\ lf_b = EmptyLogFilter
    /\ lf_c = EmptyLogFilter
    /\ lf_sum = NoSum
    /\ log = NoLog
    /\ log_matched = FALSE
    /\ windows = <<>>
    /\ plan_panicked = FALSE
    /\ lf_dss = <<>>
    /\ windows_rev = <<>>

\* No call filter is being worked on.
CallIdle ==
    /\ cf_pc = "idle"
    /\ cf = EmptyCallFilter
    /\ cf_base = EmptyCallFilter
    /\ cf_other = EmptyCallFilter
    /\ cf_contrib = {}
    /\ cf_merges = 0
    /\ call = NoCall
    /\ call_result = "none"

\* No block filter is being worked on.
BlockIdle ==
    /\ bf_pc = "idle"
    /\ bf_a = DefaultBlockFilter
    /\ bf_b = DefaultBlockFilter
    /\ bf_dss = <<>>
    /\ bf_ext = DefaultBlockFilter
    /\ bf_call = EmptyCallFilter
    /\ bf_built = DefaultBlockFilter

\* No scan is running.
ScanIdle ==
    /\ pc = "idle"
    /\ from = 1
    /\ to = 1
    /\ log_filter = EmptyLogFilter
    /\ call_filter = EmptyCallFilter
    /\ block_filter = [contract_addresses |-> {}, trigger_every_block |-> FALSE]
    /\ launched = {}
    /\ status = [s \in Scans |-> "idle"]
    /\ produced = [s \in Scans |-> <<>>]
    /\ hash_status = "pending"
    /\ to_hash = NoHash
    /\ triggers = <<>>
    /\ block_hashes = {}
    /\ triggers_by_block = <<>>
    /\ load_pending = {}
    /\ load_requests = 0
    /\ blocks = <<>>
    /\ outcome = "pending"
    /\ result = <<>>

Init ==
    /\ LogIdle
    /\ CallIdle
    /\ BlockIdle
    /\ pc = "start"
    /\ from \in Numbers
    /\ to \in Numbers
    /\ log_filter \in ScanLogFilters
    /\ call_filter \in ScanCallFilters
    /\ block_filter \in ScanBlockFilters
    /\ launched = {}
    /\ status = [s \in Scans |-> "idle"]
    /\ produced = [s \in Scans |-> <<>>]
    /\ hash_status = "pending"
    /\ to_hash = NoHash
    /\ triggers = <<>>
    /\ block_hashes = {}
    /\ triggers_by_block = <<>>
    /\ load_pending = {}
    /\ load_requests = 0
    /\ blocks = <<>>
    /\ outcome = "pending"
    /\ result = <<>>

\* ------------------------------------------------------------------------
\* Actions
\* ------------------------------------------------------------------------

\* The synchronous part of blocks_with_triggers: push the sub-scans and
\* build the joined future.
blocks_with_triggers ==
    /\ UNCHANGED algebraVars
    /\ pc = "start"
    /\ pc' = "scanning"
    /\ launched' = Launched(log_filter, call_filter, block_filter)
    /\ status' = [s \in Scans |-> IF s \in launched' THEN "pending" ELSE "idle"]
    /\ UNCHANGED <<inputVars, produced, hashVars, triggers, loadVars,
                   outcome, result>>

\* A sub-scan answers with a list of items, one trigger each; concat2 appends
\* them in completion order.
ScanSucceeds(s) ==
    /\ UNCHANGED algebraVars
    /\ pc = "scanning"
    /\ status[s] = "pending"
    /\ \E n \in 0..(MaxTriggers - Len(triggers)) :
         \E hs \in [1..n -> Hashes] :
           \E a \in Addresses :
             LET ts == [i \in 1..n |-> TriggerOf(s, hs[i], a, i)]
             IN /\ produced' = [produced EXCEPT ![s] = ts]
                /\ triggers' = triggers \o ts
    /\ status' = [status EXCEPT ![s] = "ok"]
    /\ UNCHANGED <<pc, inputVars, launched, hashVars, loadVars, outcome, result>>

\* Variant: a failed sub-scan is skipped and the others carry on.
ScanFailsIgnored(s) ==
    /\ UNCHANGED algebraVars
    /\ pc = "scanning"
    /\ status[s] = "pending"
    /\ status' = [status EXCEPT ![s] = "err"]
    /\ launched' = launched \ {s}
    /\ UNCHANGED <<pc, inputVars, produced, hashVars, triggers,
                   loadVars, outcome, result>>

\* A sub-scan fails: the FuturesUnordered stream, concat2 and the join fail.
ScanFails(s) ==
    /\ UNCHANGED algebraVars
    /\ pc = "scanning"
    /\ status[s] = "pending"
    /\ status' = [status EXCEPT ![s] = "err"]
    /\ pc' = "done"
    /\ outcome' = "err"
    /\ UNCHANGED <<inputVars, launched, produced, hashVars, triggers,
                   loadVars, result>>

\* block_hash_by_block_number(to) answers Some(hash of a block numbered to)
\* or None.
HashSucceeds ==
    /\ UNCHANGED algebraVars
    /\ pc = "scanning"
    /\ hash_status = "pending"
    /\ \/ hash_status' = "none" /\ to_hash' = NoHash
       \/ hash_status' = "some" /\ to_hash' \in {h \in Hashes : HashNumber(h) = to}
    /\ UNCHANGED <<pc, inputVars, launched, status, produced, triggers,
                   loadVars, outcome, result>>

\* block_hash_by_block_number(to) fails: the join fails.
HashFails ==
    /\ UNCHANGED algebraVars
    /\ pc = "scanning"
    /\ hash_status = "pending"
    /\ hash_status' = "err"
    /\ UNCHANGED to_hash
    /\ pc' = "done"
    /\ outcome' = "err"
    /\ UNCHANGED <<inputVars, launched, status, produced, triggers,
                   loadVars, result>>

\* Variant: ready as soon as the hash lookup has yielded.
JoinedEarly == hash_status \in {"none", "some"}

\* concat2().join(..) is ready: every pushed future and the hash lookup
\* have yielded.
Joined ==
    /\ hash_status \in {"none", "some"}
    /\ \A s \in launched : status[s] = "ok"

\* The map closure and the and_then closure: collate the triggers, force
\* `to` in, and request the blocks.
Collate ==
    /\ UNCHANGED algebraVars
    /\ pc = "scanning"
    /\ Joined
    /\ IF hash_status = "none"
       THEN \* to_hash.unwrap()
            /\ pc' = "done"
            /\ outcome' = "panic"
            /\ UNCHANGED loadVars
       ELSE /\ block_hashes' = TriggerHashes(triggers) \cup {to_hash}
            /\ triggers_by_block' =
                   OrInsertEmpty(FoldTriggers(<<>>, triggers), to)
            /\ load_pending' = block_hashes'
            /\ load_requests' = load_requests + 1
            /\ pc' = "loading"
            /\ UNCHANGED <<blocks, outcome>>
    /\ UNCHANGED <<inputVars, launched, status, produced, hashVars,
                   triggers, result>>

\* load_blocks yields the block of one requested hash; the map closure takes
\* its triggers out of triggers_by_block.
LoadBlocksYields(h) ==
    /\ UNCHANGED algebraVars
    /\ pc = "loading"
    /\ h \in load_pending
    /\ load_pending' = load_pending \ {h}
    /\ IF HashNumber(h) \in DOMAIN triggers_by_block
       THEN /\ blocks' = Append(blocks,
                   EthereumBlockWithTriggers_new(
                       triggers_by_block[HashNumber(h)], h))
            /\ triggers_by_block' = RemoveKey(triggers_by_block, HashNumber(h))
            /\ UNCHANGED <<pc, outcome>>
       ELSE \* triggers_by_block.remove(..).unwrap(): the unwinding drops
            \* the blocks collected so far.
            /\ pc' = "done"
            /\ outcome' = "panic"
            /\ blocks' = <<>>
            /\ UNCHANGED triggers_by_block
    /\ UNCHANGED <<inputVars, launched, status, produced, hashVars,
                   triggers, block_hashes, load_requests, result>>

\* The load_blocks stream fails (a block is unavailable): collect() fails
\* and drops the blocks collected so far.
LoadBlocksFails ==
    /\ UNCHANGED algebraVars
    /\ pc = "loading"
    /\ load_pending # {}
    /\ pc' = "done"
    /\ outcome' = "err"
    /\ blocks' = <<>>
    /\ UNCHANGED <<inputVars, launched, status, produced, hashVars,
                   triggers, block_hashes, triggers_by_block, load_pending,
                   load_requests, result>>

\* The stream ends: collect() completes and the last map sorts the blocks,
\* which move into the result.
Finish ==
    /\ UNCHANGED algebraVars
    /\ pc = "loading"
    /\ load_pending = {}
    /\ pc' = "done"
    /\ outcome' = "ok"
    /\ result' = SortByNumber(blocks)
    /\ blocks' = <<>>
    /\ UNCHANGED <<inputVars, launched, status, produced, hashVars,
                   triggers, block_hashes, triggers_by_block, load_pending,
                   load_requests>>

Next ==
    \/ blocks_with_triggers
    \/ \E s \in Scans : ScanSucceeds(s)
    \/ \E s \in Scans : ScanFails(s)
    \/ HashSucceeds
    \/ HashFails
    \/ Collate
    \/ \E h \in Hashes : LoadBlocksYields(h)
    \/ LoadBlocksFails
    \/ Finish

Spec == Init /\ [][Next]_vars

\* ------------------------------------------------------------------------
\* The log filter algebra
\* ------------------------------------------------------------------------

\* A filter the greedy plan is far from the best for: 6 events, and for
\* every i in 1..6 as many contracts as there are disjoint runs of i events,
\* each subscribed to the events of its run (14 contracts, 33 edges). The
\* filter is the merge of three, of the runs of 1 and 2, 3 and 4, 5 and 6
\* events.
RunsOfEvents == {<<i, t>> \in (1..6) \X (1..6) : i * t <= 6}

\* The runs, by the number of events and then by their place.
RunBefore(r, s) == r[1] < s[1] \/ (r[1] = s[1] /\ r[2] <= s[2])

RunsInOrder ==
    [k \in 1..Cardinality(RunsOfEvents) |->
        CHOOSE r \in RunsOfEvents :
           Cardinality({s \in RunsOfEvents : RunBefore(s, r)}) = k]

DataSourceOfRun(r) ==
    DataSource("c" \o ToString(r[1]) \o "_" \o ToString(r[2]), 1,
               [j \in 1..r[1] |-> "h" \o ToString((r[2] - 1) * r[1] + j)],
               <<>>)

RunDataSources ==
    [k \in DOMAIN RunsInOrder |-> DataSourceOfRun(RunsInOrder[k])]

\* The filter of the data sources whose runs have one of the lengths given.
RunsFilter(lengths) ==
    LogFilterFromDataSources(
        SelectSeq(RunDataSources,
                  LAMBDA ds : Len(ds.event_handlers) \in lengths))

\* The filters of one data source each.
LogOperands == {LogFilterFromDataSources(<<d>>) : d \in LogDataSources}

LogFilterInit ==
    /\ \/ /\ lf_a \in LogOperands
          /\ lf_b \in LogOperands
          /\ lf_c \in LogOperands
       \/ /\ lf_a = RunsFilter({1, 2})
          /\ lf_b = RunsFilter({3, 4})
          /\ lf_c = RunsFilter({5, 6})
    /\ lf_pc = "built"
    /\ ScanIdle
    /\ CallIdle
    /\ BlockIdle
    /\ lf_sum = NoSum
    /\ log = NoLog
    /\ log_matched = FALSE
    /\ windows = <<>>
    /\ plan_panicked = FALSE
    /\ lf_dss = <<>>
    /\ windows_rev = <<>>

\* extend, applied in every grouping and order.
ExtendLogFilters ==
    /\ lf_pc = "built"
    /\ lf_pc' = "merged"
    /\ lf_sum' =
          [ab_c |-> LogFilterExtend(LogFilterExtend(lf_a, lf_b), lf_c),
           a_bc |-> LogFilterExtend(lf_a, LogFilterExtend(lf_b, lf_c)),
           ab   |-> LogFilterExtend(lf_a, lf_b),
           ba   |-> LogFilterExtend(lf_b, lf_a),
           aa   |-> LogFilterExtend(lf_a, lf_a),
           cb_a |-> LogFilterExtend(LogFilterExtend(lf_c, lf_b), lf_a)]
    /\ UNCHANGED <<scanVars, callVars, blockVars, lf_a, lf_b, lf_c, log,
                   log_matched, windows, plan_panicked, lf_dss, windows_rev>>

\* matches, applied to the merged filter and a log.
MatchLog(l) ==
    /\ lf_pc = "merged"
    /\ lf_pc' = "matched"
    /\ log' = l
    /\ log_matched' = LogFilterMatches(lf_sum.ab_c, l)
    /\ UNCHANGED <<scanVars, callVars, blockVars, lf_a, lf_b, lf_c, lf_sum,
                   windows, plan_panicked, lf_dss, windows_rev>>

\* eth_get_logs_filters, applied to the merged filter.
eth_get_logs_filters ==
    /\ lf_pc = "merged"
    /\ lf_pc' = "planned"
    /\ \E wildcards \in DistinctSeqs(lf_sum.ab_c.wildcard_events) :
          /\ SeqRange(wildcards) = lf_sum.ab_c.wildcard_events
          /\ windows' = EthGetLogsFilters(lf_sum.ab_c, wildcards).windows
          /\ plan_panicked' = EthGetLogsFilters(lf_sum.ab_c, wildcards).panicked
    /\ UNCHANGED <<scanVars, callVars, blockVars, lf_a, lf_b, lf_c, lf_sum,
                   log, log_matched, lf_dss, windows_rev>>

\* eth_get_logs_filters, applied to the same filters merged in the opposite
\* order.
PlanReordered ==
    /\ lf_pc = "planned"
    /\ lf_pc' = "replanned"
    /\ \E wildcards \in DistinctSeqs(lf_sum.cb_a.wildcard_events) :
          /\ SeqRange(wildcards) = lf_sum.cb_a.wildcard_events
          /\ windows_rev' = EthGetLogsFilters(lf_sum.cb_a, wildcards).windows
    /\ UNCHANGED <<scanVars, callVars, blockVars, lf_a, lf_b, lf_c, lf_sum,
                   log, log_matched, windows, plan_panicked, lf_dss>>

LogFilterNext ==
    \/ ExtendLogFilters
    \/ \E l \in Logs : MatchLog(l)
    \/ eth_get_logs_filters
    \/ PlanReordered

LogFilterSpec == LogFilterInit /\ [][LogFilterNext]_vars

\* ------------------------------------------------------------------------
\* Log filters from data sources
\* ------------------------------------------------------------------------

LogDataSourceLists ==
    UNION {[1..n -> LogDataSources] : n \in 0..MaxDataSources}

LogSourcesInit ==
    /\ ScanIdle
    /\ CallIdle
    /\ BlockIdle
    /\ lf_pc = "sources"
    /\ lf_dss \in LogDataSourceLists
    /\ lf_a = EmptyLogFilter
    /\ lf_b = EmptyLogFilter
    /\ lf_c = EmptyLogFilter
    /\ lf_sum = NoSum
    /\ log = NoLog
    /\ log_matched = FALSE
    /\ windows = <<>>
    /\ plan_panicked = FALSE
    /\ windows_rev = <<>>

\* EthereumLogFilter::from_data_sources(lf_dss)
log_filter_from_data_sources ==
    /\ lf_pc = "sources"
    /\ lf_pc' = "from_sources"
    /\ lf_a' = LogFilterFromDataSources(lf_dss)
    /\ UNCHANGED <<scanVars, callVars, blockVars, lf_b, lf_c, lf_sum, log,
                   log_matched, windows, plan_panicked, lf_dss, windows_rev>>

\* matches, applied to the filter built from the data sources.
MatchLogFromSources(l) ==
    /\ lf_pc = "from_sources"
    /\ lf_pc' = "source_matched"
    /\ log' = l
    /\ log_matched' = LogFilterMatches(lf_a, l)
    /\ UNCHANGED <<scanVars, callVars, blockVars, lf_a, lf_b, lf_c, lf_sum,
                   windows, plan_panicked, lf_dss, windows_rev>>

LogSourcesNext ==
    \/ log_filter_from_data_sources
    \/ \E l \in Logs : MatchLogFromSources(l)

LogSourcesSpec == LogSourcesInit /\ [][LogSourcesNext]_vars

\* ------------------------------------------------------------------------
\* The call filter algebra
\* ------------------------------------------------------------------------

\* The filters from_iter can build, given to extend.
CallOperands == {CallFilterFromIter(items) : items \in ItemSeqs}

\* What a filter given to extend contributes: its start block and its
\* selectors, per address.
Contributions(f) ==
    UNION {{<<f[a][1], a, sig>> : sig \in f[a][2]} : a \in DOMAIN f}

CallFilterInit ==
    /\ ScanIdle
    /\ LogIdle
    /\ BlockIdle
    /\ cf_pc = "new"
    /\ cf = EmptyCallFilter
    /\ cf_base = EmptyCallFilter
    /\ cf_other = EmptyCallFilter
    /\ cf_contrib = {}
    /\ cf_merges = 0
    /\ call = NoCall
    /\ call_result = "none"

\* items.into_iter().collect::<EthereumCallFilter>()
from_iter(items) ==
    /\ cf_pc = "new"
    /\ cf_pc' = "ready"
    /\ cf' = CallFilterFromIter(items)
    /\ cf_contrib' = SeqRange(items)
    /\ UNCHANGED <<scanVars, logVars, blockVars, cf_base, cf_other, cf_merges,
                   call, call_result>>

\* cf.extend(other)
ExtendCallFilter(other) ==
    /\ cf_pc = "ready"
    /\ cf_merges < MaxMerges
    /\ cf_merges' = cf_merges + 1
    /\ cf_base' = cf
    /\ cf_other' = other
    /\ cf' = CallFilterExtend(cf, other)
    /\ cf_contrib' = cf_contrib \cup Contributions(other)
    /\ UNCHANGED <<scanVars, logVars, blockVars, cf_pc, call, call_result>>

\* cf.matches(&c)
MatchCall(c) ==
    /\ cf_pc = "ready"
    /\ cf_pc' = "matched"
    /\ call' = c
    /\ call_result' = CallFilterMatches(cf, c)
    /\ UNCHANGED <<scanVars, logVars, blockVars, cf, cf_base, cf_other,
                   cf_contrib, cf_merges>>

CallFilterNext ==
    \/ \E items \in ItemSeqs : from_iter(items)
    \/ \E other \in CallOperands : ExtendCallFilter(other)
    \/ \E c \in Calls : MatchCall(c)

CallFilterSpec == CallFilterInit /\ [][CallFilterNext]_vars

\* ------------------------------------------------------------------------
\* Merging call filters
\* ------------------------------------------------------------------------

\* Every call filter over the addresses, start blocks and selectors, those
\* with an empty selector set for an address (as converted from a block
\* filter) included.
CallFilterValues ==
    UNION {[D -> CallStartBlocks \X SUBSET Selectors] :
              D \in SUBSET CallAddresses}

CallMergeInit ==
    /\ ScanIdle
    /\ LogIdle
    /\ BlockIdle
    /\ cf_pc = "operands"
    /\ cf_base \in CallFilterValues
    /\ cf_other \in CallFilterValues
    /\ cf = cf_base
    /\ cf_contrib = {}
    /\ cf_merges = 0
    /\ call = NoCall
    /\ call_result = "none"

\* cf.extend(cf_other), cf being cf_base before
MergeCallFilters ==
    /\ cf_pc = "operands"
    /\ cf_pc' = "merged"
    /\ cf' = CallFilterExtend(cf, cf_other)
    /\ UNCHANGED <<scanVars, logVars, blockVars, cf_base, cf_other, cf_contrib,
                   cf_merges, call, call_result>>

\* cf.matches(&c) after the extend
MatchMergedCall(c) ==
    /\ cf_pc = "merged"
    /\ cf_pc' = "merged_matched"
    /\ call' = c
    /\ call_result' = CallFilterMatches(cf, c)
    /\ UNCHANGED <<scanVars, logVars, blockVars, cf, cf_base, cf_other,
                   cf_contrib, cf_merges>>

CallMergeNext ==
    \/ MergeCallFilters
    \/ \E c \in Calls : MatchMergedCall(c)

CallMergeSpec == CallMergeInit /\ [][CallMergeNext]_vars

\* ------------------------------------------------------------------------
\* The block filter algebra
\* ------------------------------------------------------------------------

BlockOperands ==
    [contract_addresses : SUBSET (Numbers \X BlockAddresses),
     trigger_every_block : BOOLEAN]

BlockFilterInit ==
    /\ ScanIdle
    /\ LogIdle
    /\ CallIdle
    /\ bf_pc = "new"
    /\ \/ /\ bf_a \in BlockOperands
          /\ bf_b \in BlockOperands
          /\ bf_dss = <<>>
       \/ /\ bf_a = DefaultBlockFilter
          /\ bf_b = DefaultBlockFilter
          /\ bf_dss \in BlockDataSourceLists
    /\ bf_ext = DefaultBlockFilter
    /\ bf_call = EmptyCallFilter
    /\ bf_built = DefaultBlockFilter

\* bf_a.extend(bf_b)
ExtendBlockFilter ==
    /\ bf_pc = "new"
    /\ bf_pc' = "extended"
    /\ \E found \in EntryChoices(bf_b.contract_addresses) :
          bf_ext' = BlockFilterExtend(bf_a, bf_b, found)
    /\ UNCHANGED <<scanVars, logVars, callVars, bf_a, bf_b, bf_dss, bf_call,
                   bf_built>>

\* EthereumCallFilter::from(bf_a), bf_a having been extended
ConvertToCallFilter ==
    /\ bf_pc = "extended"
    /\ bf_pc' = "converted"
    /\ \E last \in EntryChoices(bf_ext.contract_addresses) :
          bf_call' = CallFilterFromBlockFilter(bf_ext, last)
    /\ UNCHANGED <<scanVars, logVars, callVars, bf_a, bf_b, bf_dss, bf_ext,
                   bf_built>>

\* EthereumBlockFilter::from_data_sources(bf_dss)
from_data_sources ==
    /\ bf_pc = "new"
    /\ bf_pc' = "built"
    /\ bf_built' = BlockFilterFromDataSources(bf_dss)
    /\ UNCHANGED <<scanVars, logVars, callVars, bf_a, bf_b, bf_dss, bf_ext,
                   bf_call>>

BlockFilterNext ==
    \/ ExtendBlockFilter
    \/ ConvertToCallFilter
    \/ from_data_sources

BlockFilterSpec == BlockFilterInit /\ [][BlockFilterNext]_vars

\* ------------------------------------------------------------------------
\* Type invariant
\* ------------------------------------------------------------------------

TypeOK ==
    /\ pc \in {"start", "scanning", "loading", "done"}
    /\ outcome \in {"pending", "ok", "err", "panic"}
    /\ launched \subseteq Scans
    /\ Len(triggers) <= MaxTriggers
    /\ block_hashes \subseteq Hashes
    /\ load_pending \subseteq block_hashes

\* ------------------------------------------------------------------------
\* Properties of blocks_with_triggers
\* ------------------------------------------------------------------------

AllFiltersEmpty ==
    /\ LogFilterIsEmpty(log_filter)
    /\ CallFilterIsEmpty(call_filter)
    /\ ~block_filter.trigger_every_block
    /\ block_filter.contract_addresses = {}

\* Some launched sub-scan or the hash lookup has failed.
SomeFailed ==
    hash_status = "err" \/ \E s \in Scans : status[s] = "err"

\* Every launched sub-scan and the hash lookup have answered without error.
AllAnswered ==
    /\ hash_status \in {"none", "some"}
    /\ \A s \in launched : status[s] = "ok"

\* Log = 1, Call = 2, Block = 3
KindRank(t) ==
    CASE t.kind = "Log" -> 1 [] t.kind = "Call" -> 2 [] OTHER -> 3

\* The places <<element, position>> of the result that hold trigger t.
Places(t) ==
    {p \in {<<b, k>> : b \in DOMAIN result, k \in 1..MaxTriggers} :
        /\ p[2] \in DOMAIN result[p[1]].triggers
        /\ result[p[1]].triggers[p[2]] = t}

\* C1: for a range from <= to, a returned list is strictly ascending by block
\* number (sorted, no two elements of one number) and holds an element
\* numbered `to`.
C1_SortedDistinctWithTo ==
    (from <= to /\ outcome = "ok") =>
        /\ \A i, j \in DOMAIN result :
              i < j => result[i].number < result[j].number
        /\ \E i \in DOMAIN result : result[i].number = to

\* C1 witness: a scan over a range of two blocks has returned both, the
\* block before `to` carrying a trigger.
C1_Witness ==
    /\ from < to
    /\ outcome = "ok"
    /\ Len(result) >= 2
    /\ result[1].triggers # <<>>

\* C2: once a launched sub-scan or the terminal hash lookup has failed, the
\* call has completed with an error; nothing was collated, no block was
\* requested or collected and the result holds no block.
C2_FailureIsAtomic ==
    SomeFailed =>
        /\ outcome = "err"
        /\ result = <<>>
        /\ blocks = <<>>
        /\ load_requests = 0

\* C2 witness: a sub-scan failed after another one had already delivered
\* triggers.
C2_Witness ==
    /\ \E s \in Scans : status[s] = "err"
    /\ triggers # <<>>
    /\ outcome = "err"

\* C3: in every returned element the triggers are ordered all logs, then all
\* calls, then all block triggers.
C3_LogsThenCallsThenBlocks ==
    outcome = "ok" =>
        \A b \in DOMAIN result :
            \A i, j \in DOMAIN result[b].triggers :
                i < j => KindRank(result[b].triggers[i])
                           <= KindRank(result[b].triggers[j])

\* C4: with all three filters empty no sub-scan is launched, and a returned
\* list is exactly the block numbered `to` with no trigger.
C4_EmptyFiltersYieldTerminalOnly ==
    AllFiltersEmpty =>
        /\ launched = {}
        /\ \A s \in Scans : status[s] = "idle"
        /\ outcome = "ok" =>
              /\ Len(result) = 1
              /\ result[1].number = to
              /\ result[1].triggers = <<>>

\* C4 witness: a scan with all filters empty has returned.
C4_Witness ==
    /\ AllFiltersEmpty
    /\ outcome = "ok"
    /\ Len(result) = 1

\* C5: a call with from > to fails and returns no blocks.
C5_InvalidRangeFails ==
    from > to => (outcome # "ok" /\ result = <<>>)

\* C6: for a range from <= to, no returned element has a block number
\* outside [from, to] (an out-of-range log or call fails the scan).
C6_NoElementOutOfRange ==
    (from <= to /\ outcome = "ok") =>
        \A i \in DOMAIN result : result[i].number \in from..to

\* block_range_to_ptrs answered with one pointer per block number of
\* [from, to].
PtrsCoverRange ==
    /\ status["block_ptrs"] = "ok"
    /\ Len(produced["block_ptrs"]) = to - from + 1
    /\ {block_number(produced["block_ptrs"][i]) :
           i \in DOMAIN produced["block_ptrs"]} = from..to

EveryBlockOnly ==
    /\ block_filter.trigger_every_block
    /\ LogFilterIsEmpty(log_filter)
    /\ CallFilterIsEmpty(call_filter)

\* C7: with trigger_every_block and empty log and call filters, from <= to,
\* and one pointer returned per block number of the range, a returned list
\* has to - from + 1 elements, the i-th numbered from + i - 1 and holding
\* exactly one trigger, the Block(ptr, Every) built from that block's pointer.
C7_EveryBlockOneTrigger ==
    (EveryBlockOnly /\ from <= to /\ PtrsCoverRange /\ outcome = "ok") =>
        /\ Len(result) = to - from + 1
        /\ \A i \in DOMAIN result :
              /\ result[i].number = from + i - 1
              /\ Len(result[i].triggers) = 1
              /\ result[i].triggers[1].kind = "Block"
              /\ result[i].triggers[1].ttype = "Every"
              /\ result[i].triggers[1].hash = result[i].hash
              /\ \E k \in DOMAIN produced["block_ptrs"] :
                    produced["block_ptrs"][k] = result[i].triggers[1]

\* C7 witness: an every-block scan over a range of two blocks has returned.
C7_Witness ==
    /\ EveryBlockOnly
    /\ from < to
    /\ PtrsCoverRange
    /\ outcome = "ok"
    /\ Len(result) = 2

\* C8: in a returned list every trigger produced by a sub-scan sits at
\* exactly one place, in the element of its own block number, and every
\* trigger of an element was produced by a sub-scan for that block number.
C8_TriggerConservation ==
    outcome = "ok" =>
        /\ \A s \in Scans : \A i \in DOMAIN produced[s] :
              /\ Cardinality(Places(produced[s][i])) = 1
              /\ \A p \in Places(produced[s][i]) :
                    result[p[1]].number = block_number(produced[s][i])
        /\ \A b \in DOMAIN result : \A k \in DOMAIN result[b].triggers :
              /\ block_number(result[b].triggers[k]) = result[b].number
              /\ \E s \in Scans : \E i \in DOMAIN produced[s] :
                    produced[s][i] = result[b].triggers[k]

\* C8 witness: a returned element holds two triggers, from two sub-scans.
C8_Witness ==
    /\ outcome = "ok"
    /\ \E b \in DOMAIN result :
          /\ Len(result[b].triggers) = 2
          /\ result[b].triggers[1].id[1] # result[b].triggers[2].id[1]

\* C9: in a returned list only the element numbered `to` may have an empty
\* trigger list.
C9_OnlyTerminalMayBeEmpty ==
    outcome = "ok" =>
        \A i \in DOMAIN result :
            result[i].number # to => result[i].triggers # <<>>

\* C9 witness: a returned list with an element of another number than `to`
\* and an empty terminal element.
C9_Witness ==
    /\ outcome = "ok"
    /\ \E i \in DOMAIN result : result[i].number # to
    /\ \E i \in DOMAIN result :
          result[i].number = to /\ result[i].triggers = <<>>

\* C10: the call has returned a list only if every launched sub-scan and the
\* hash lookup succeeded, and it has left the scanning phase only if all of
\* them answered or one of them failed.
C10_ReturnsOnlyAfterAll ==
    /\ outcome = "ok" =>
          /\ hash_status = "some"
          /\ \A s \in launched : status[s] = "ok"
    /\ pc \in {"loading", "done"} => (AllAnswered \/ SomeFailed)

\* C10 witness: a scan with two sub-scans launched has returned.
C10_Witness ==
    /\ outcome = "ok"
    /\ Cardinality(launched) >= 2
    /\ \A s \in launched : produced[s] # <<>>

\* ------------------------------------------------------------------------
\* Properties of the log filter
\* ------------------------------------------------------------------------

\* A log filter as compared: its edge set and its wildcard set.
LogFilterValue(f) ==
    [edges |-> EdgeSet(f.contracts_and_events_graph),
     wildcards |-> f.wildcard_events]

\* The merged filter the log is matched against and the windows are planned
\* for.
MergedFilter == lf_sum.ab_c

\* An eth_getLogs window accepts a log from address a with first topic e.
WindowAccepts(w, a, e) ==
    /\ e \in w.event_signatures
    /\ w.contracts = {} \/ a \in w.contracts

SomeWindowAccepts(a, e) ==
    \E i \in DOMAIN windows : WindowAccepts(windows[i], a, e)

\* C11: extend is associative, commutative and idempotent on the edge set
\* and the wildcard set.
C11_ExtendIsSemilattice ==
    lf_pc \in {"merged", "matched", "planned"} =>
        /\ LogFilterValue(lf_sum.ab_c) = LogFilterValue(lf_sum.a_bc)
        /\ LogFilterValue(lf_sum.ab) = LogFilterValue(lf_sum.ba)
        /\ LogFilterValue(lf_sum.aa) = LogFilterValue(lf_a)

\* C11 witness: three different filters, with edges and with wildcard events,
\* have been merged.
C11_Witness ==
    /\ lf_pc = "merged"
    /\ lf_a.wildcard_events # {}
    /\ EdgeCount(lf_b.contracts_and_events_graph) = 2
    /\ EdgeCount(lf_c.contracts_and_events_graph) = 1
    /\ lf_b # lf_c
    /\ EdgeCount(MergedFilter.contracts_and_events_graph) = 3

\* C12: matches is true iff the log has a first topic and the filter holds
\* the edge (log.address, topics[0]) or the wildcard event topics[0].
C12_MatchesCharacterised ==
    lf_pc = "matched" =>
        (log_matched <=>
            /\ log.topics # <<>>
            /\ \/ <<log.address, log.topics[1]>>
                     \in EdgeSet(MergedFilter.contracts_and_events_graph)
               \/ log.topics[1] \in MergedFilter.wildcard_events)

\* C12 witness: a log was matched by a wildcard event only, from an address
\* the filter has no edge for.
C12_Witness ==
    /\ lf_pc = "matched"
    /\ log_matched
    /\ log.topics[1] \in MergedFilter.wildcard_events
    /\ \A ed \in EdgeSet(MergedFilter.contracts_and_events_graph) :
          ed[1] # log.address
    /\ EdgeCount(MergedFilter.contracts_and_events_graph) > 0

\* C13: every log the filter matches is accepted by some emitted window.
C13_NoFalseNegatives ==
    lf_pc = "planned" =>
        \A l \in Logs :
            LogFilterMatches(MergedFilter, l) =>
                SomeWindowAccepts(l.address, l.topics[1])

\* C13 witness: a filter of three edges that no single node covers has been
\* planned.
C13_Witness ==
    /\ lf_pc = "planned"
    /\ EdgeCount(MergedFilter.contracts_and_events_graph) = 3
    /\ Len(windows) >= 2
    /\ MergedFilter.wildcard_events = {}

\* C14: no assertion of the planner fails; every window has a side of size
\* one, a window without contracts holds exactly one (wildcard) event and
\* every other window has contracts and events.
C14_WindowShapes ==
    lf_pc = "planned" =>
        /\ ~plan_panicked
        /\ \A i \in DOMAIN windows :
              /\ \/ Cardinality(windows[i].contracts) <= 1
                 \/ Cardinality(windows[i].event_signatures) <= 1
              /\ windows[i].event_signatures # {}
              /\ windows[i].contracts = {} =>
                    /\ Cardinality(windows[i].event_signatures) = 1
                    /\ windows[i].event_signatures
                          \subseteq MergedFilter.wildcard_events
                    /\ i <= Cardinality(MergedFilter.wildcard_events)
              /\ i > Cardinality(MergedFilter.wildcard_events) =>
                    windows[i].contracts # {}

\* C14 witness: a plan of a wildcard window, a window of several contracts
\* and a further window.
C14_Witness ==
    /\ lf_pc = "planned"
    /\ Len(windows) >= 3
    /\ \E i \in DOMAIN windows : windows[i].contracts = {}
    /\ \E i \in DOMAIN windows : Cardinality(windows[i].contracts) >= 2

\* C15: the windows together accept exactly the (address, first topic) pairs
\* the filter matches.
C15_NoFalsePositives ==
    lf_pc = "planned" =>
        \A a \in Contracts : \A e \in EventSigs :
            SomeWindowAccepts(a, e) <=>
                LogFilterMatches(MergedFilter, [address |-> a, topics |-> <<e>>])

\* C15 witness: two contracts subscribed to the same two events were planned
\* as two windows, neither accepting a third contract.
C15_Witness ==
    /\ lf_pc = "planned"
    /\ EdgeSet(MergedFilter.contracts_and_events_graph)
          = {"a1", "a2"} \X EventSigs
    /\ MergedFilter.wildcard_events = {}
    /\ Len(windows) = 2
    /\ ~SomeWindowAccepts("a3", "e1")

\* ------------------------------------------------------------------------
\* Properties of the call filter
\* ------------------------------------------------------------------------

\* The start blocks and the selectors contributed for an address.
ContributedStarts(a) == {i[1] : i \in {j \in cf_contrib : j[2] = a}}

ContributedSelectors(a) == {i[3] : i \in {j \in cf_contrib : j[2] = a}}

LeastOf(S) == CHOOSE x \in S : \A y \in S : x <= y

\* C16: after from_iter and any extends, the filter keys exactly the
\* addresses contributed, each with the least start block and all selectors
\* contributed for it; an address only in the extending filter is taken as
\* it is there and an address only in the base is left as it was.
C16_MinStartUnionSelectors ==
    cf_pc \in {"ready", "matched"} =>
        /\ DOMAIN cf = {i[2] : i \in cf_contrib}
        /\ \A a \in DOMAIN cf :
              /\ cf[a][1] = LeastOf(ContributedStarts(a))
              /\ cf[a][2] = ContributedSelectors(a)
        /\ cf_merges > 0 =>
              /\ \A a \in DOMAIN cf_other \ DOMAIN cf_base : cf[a] = cf_other[a]
              /\ \A a \in DOMAIN cf_base \ DOMAIN cf_other : cf[a] = cf_base[a]

\* C16 witness: an extend lowered the start block of a shared address, added
\* a selector to it, and brought an address the base did not have.
C16_Witness ==
    /\ cf_pc = "ready"
    /\ cf_merges > 0
    /\ "a1" \in DOMAIN cf_base
    /\ "a1" \in DOMAIN cf_other
    /\ cf_other["a1"][1] < cf_base["a1"][1]
    /\ cf_other["a1"][2] # cf_base["a1"][2]
    /\ "a2" \in DOMAIN cf_other \ DOMAIN cf_base

\* The first four bytes of an input, or all of it when it is shorter.
FirstFour(input) ==
    SubSeq(input, 1, IF Len(input) < 4 THEN Len(input) ELSE 4)

\* C17: matches returns a boolean for every filter and call, inputs shorter
\* than 4 bytes included: true iff call.to is keyed and its selector set is
\* empty or holds the first 4 bytes of the input.
C17_MatchesReturnsBoolean ==
    cf_pc = "matched" =>
        call_result =
            IF /\ call.to \in DOMAIN cf
               /\ \/ cf[call.to][2] = {}
                  \/ FirstFour(call.input) \in cf[call.to][2]
            THEN "true"
            ELSE "false"

\* ------------------------------------------------------------------------
\* Properties of the block filter
\* ------------------------------------------------------------------------

\* The least start block the two operands give an address.
LeastStart(a) ==
    LeastOf({e[1] : e \in {x \in bf_a.contract_addresses
                                 \cup bf_b.contract_addresses : x[2] = a}})

OperandAddresses ==
    AddressesOf(bf_a.contract_addresses \cup bf_b.contract_addresses)

\* C18: after a.extend(b), trigger_every_block is the OR of both flags and
\* contract_addresses holds every address of either operand with the least
\* of the start blocks the operands give it.
C18_ExtendIsUnionWithMin ==
    bf_pc \in {"extended", "converted"} =>
        /\ bf_ext.trigger_every_block
              = (bf_a.trigger_every_block \/ bf_b.trigger_every_block)
        /\ bf_ext.contract_addresses
              = {<<LeastStart(a), a>> : a \in OperandAddresses}

\* C19: from_data_sources registers (start_block, address) for every data
\* source with an address and a block handler with filter Call, and sets
\* trigger_every_block when some data source has a block handler without a
\* filter.
C19_FromDataSourcesRegisters ==
    bf_pc = "built" =>
        /\ \A i \in DOMAIN bf_dss :
              (/\ bf_dss[i].address # "none"
               /\ \E j \in DOMAIN bf_dss[i].block_handlers :
                     bf_dss[i].block_handlers[j] = "Call")
                 => <<bf_dss[i].start_block, bf_dss[i].address>>
                        \in bf_built.contract_addresses
        /\ (\E i \in DOMAIN bf_dss : \E j \in DOMAIN bf_dss[i].block_handlers :
                bf_dss[i].block_handlers[j] = "none")
              => bf_built.trigger_every_block

\* C20: the call filter converted from a extended with b maps every address
\* of a or b to the least of the start blocks a and b give it, with no
\* selectors.
C20_ConvertedExtendHasMinStarts ==
    bf_pc = "converted" =>
        /\ DOMAIN bf_call = OperandAddresses
        /\ \A a \in DOMAIN bf_call : bf_call[a] = <<LeastStart(a), {}>>

\* ------------------------------------------------------------------------
\* Further properties of blocks_with_triggers
\* ------------------------------------------------------------------------

\* C21: when the lookup of `to` succeeds with no hash, the operation ends in
\* an error: it does not panic and returns no blocks.
C21_MissingBlockIsAnError ==
    (pc = "done" /\ hash_status = "none") =>
        /\ outcome = "err"
        /\ result = <<>>

\* C23: every block load_blocks is still to yield has an entry in
\* triggers_by_block, so remove(..).unwrap() never fails.
C23_RemoveFindsEntry ==
    /\ pc = "loading" =>
          \A h \in load_pending : HashNumber(h) \in DOMAIN triggers_by_block
    /\ outcome = "panic" => hash_status = "none"

\* The hashes of the blocks the sub-scans' answers are in.
ProducedHashes ==
    UNION {{produced[s][i].hash : i \in DOMAIN produced[s]} : s \in Scans}

\* C24: with trigger_every_block only block_range_to_ptrs is pushed and
\* every block trigger is Block(ptr, Every), whatever contract_addresses
\* holds; without it and with contract_addresses the derived call scan is
\* pushed and each of its calls gives one Block(ptr, WithCallTo(call.to));
\* at most one block-level sub-scan is pushed.
C24_BlockScanSelection ==
    pc # "start" =>
        /\ ~({"block_ptrs", "block_calls"} \subseteq launched)
        /\ block_filter.trigger_every_block =>
              /\ "block_ptrs" \in launched
              /\ produced["block_calls"] = <<>>
              /\ \A i \in DOMAIN triggers :
                    triggers[i].kind = "Block" =>
                        /\ triggers[i].ttype = "Every"
                        /\ triggers[i].addr = "none"
        /\ (~block_filter.trigger_every_block
               /\ block_filter.contract_addresses # {}) =>
              /\ "block_calls" \in launched
              /\ produced["block_ptrs"] = <<>>
              /\ \A i \in DOMAIN produced["block_calls"] :
                    /\ produced["block_calls"][i].kind = "Block"
                    /\ produced["block_calls"][i].ttype = "WithCallTo"
                    /\ produced["block_calls"][i].addr \in Addresses
                    /\ produced["block_calls"][i].id = <<"block_calls", i>>
        /\ (~block_filter.trigger_every_block
               /\ block_filter.contract_addresses = {}) =>
              \A i \in DOMAIN triggers : triggers[i].kind # "Block"

\* C24 witness: a scan with trigger_every_block and contract addresses
\* returned a block with an Every trigger.
C24_Witness ==
    /\ outcome = "ok"
    /\ block_filter.trigger_every_block
    /\ block_filter.contract_addresses # {}
    /\ \E i \in DOMAIN result : \E j \in DOMAIN result[i].triggers :
          result[i].triggers[j].ttype = "Every"

\* C25: load_blocks is requested at most once, only when every pushed
\* sub-scan and the lookup of `to` have succeeded, with the hashes of the
\* triggers found plus the hash of `to`; never after a failure.
C25_LoadBlocksOnceAfterAll ==
    /\ load_requests <= 1
    /\ load_requests = 1 =>
          /\ \A s \in launched : status[s] = "ok"
          /\ hash_status = "some"
          /\ block_hashes = ProducedHashes \cup {to_hash}
    /\ (hash_status \in {"err", "none"} \/ \E s \in Scans : status[s] = "err")
          => load_requests = 0

\* C25 witness: two sub-scans answered, and load_blocks was requested for a
\* trigger's block and the different block of `to`.
C25_Witness ==
    /\ load_requests = 1
    /\ Cardinality(launched) >= 2
    /\ ProducedHashes # {}
    /\ to_hash \notin ProducedHashes
    /\ Cardinality(block_hashes) = 2

\* The triggers of ts that sub-scan s produced.
FromScan(ts, s) == SelectSeq(ts, LAMBDA t : t.id[1] = s)

\* The triggers of ts found in block number n.
InBlock(ts, n) == SelectSeq(ts, LAMBDA t : block_number(t) = n)

\* C26: the blocks returned and the triggers of each are determined by the
\* sub-scans' answers and the hash of `to`, not by the completion order: a
\* block carries, per sub-scan, the triggers that sub-scan found in it, in
\* the order the sub-scan returned them, and nothing else.
C26_CompletionOrderIndependent ==
    outcome = "ok" =>
        /\ {result[i].hash : i \in DOMAIN result} = ProducedHashes \cup {to_hash}
        /\ \A i \in DOMAIN result :
              \A s \in Scans :
                  FromScan(result[i].triggers, s)
                      = InBlock(produced[s], result[i].number)

\* C26 witness: the call scan answered before the log scan and a block came
\* back with the call's trigger ahead of the log's.
C26_Witness ==
    /\ outcome = "ok"
    /\ \E i \in DOMAIN result :
          /\ Len(result[i].triggers) = 2
          /\ result[i].triggers[1].kind = "Call"
          /\ result[i].triggers[2].kind = "Log"

\* ------------------------------------------------------------------------
\* Properties of log filters built from data sources
\* ------------------------------------------------------------------------

\* C22: the filter built from a list of data sources matches a log iff the
\* log has a first topic and some data source has an event handler for it
\* and either no address or the log's address; data sources with an address
\* give the edges only and data sources without one the wildcard events only.
C22_FromDataSourcesRoundTrip ==
    /\ lf_pc = "source_matched" =>
          (log_matched <=>
              /\ log.topics # <<>>
              /\ \E i \in DOMAIN lf_dss :
                    /\ log.topics[1] \in SeqRange(lf_dss[i].event_handlers)
                    /\ lf_dss[i].address \in {"none", log.address})
    /\ lf_pc \in {"from_sources", "source_matched"} =>
          /\ EdgeSet(lf_a.contracts_and_events_graph)
                = UNION {{<<lf_dss[i].address, e>> :
                             e \in SeqRange(lf_dss[i].event_handlers)} :
                         i \in {j \in DOMAIN lf_dss : lf_dss[j].address # "none"}}
          /\ lf_a.wildcard_events
                = UNION {SeqRange(lf_dss[i].event_handlers) :
                         i \in {j \in DOMAIN lf_dss : lf_dss[j].address = "none"}}

\* C22 witness: of a data source with an address and one without, the second
\* alone made the filter match a log from another address.
C22_Witness ==
    /\ lf_pc = "source_matched"
    /\ log_matched
    /\ Len(lf_dss) = 2
    /\ lf_dss[1].address \notin {"none", log.address}
    /\ lf_dss[1].event_handlers # <<>>
    /\ lf_dss[2].address = "none"
    /\ log.topics[1] \in SeqRange(lf_dss[2].event_handlers)

\* ------------------------------------------------------------------------
\* Properties of merged call filters
\* ------------------------------------------------------------------------

\* C27: a call that either operand matched before a.extend(b) is matched by
\* a afterwards.
C27_MergeKeepsMatches ==
    cf_pc = "merged_matched" =>
        ((\/ CallFilterMatches(cf_base, call) = "true"
          \/ CallFilterMatches(cf_other, call) = "true")
            => call_result = "true")

\* ------------------------------------------------------------------------
\* Further properties of the planner
\* ------------------------------------------------------------------------

\* C28: two filters of the same edge set and wildcard set, merged in
\* different orders, are planned as the same set of windows.
C28_PlanDeterminedByValue ==
    (/\ lf_pc = "replanned"
     /\ LogFilterValue(lf_sum.ab_c) = LogFilterValue(lf_sum.cb_a))
        => SeqRange(windows) = SeqRange(windows_rev)

\* The contracts and the events of a filter's graph.
ContractsOf(f) == {ed[1] : ed \in EdgeSet(f.contracts_and_events_graph)}

EventsOf(f) == {ed[2] : ed \in EdgeSet(f.contracts_and_events_graph)}

\* Every contract of the filter is subscribed to every event of it.
CompleteBipartite(f) ==
    /\ EdgeCount(f.contracts_and_events_graph) > 0
    /\ EdgeSet(f.contracts_and_events_graph) = ContractsOf(f) \X EventsOf(f)
    /\ f.wildcard_events = {}

Smaller(m, n) == IF m < n THEN m ELSE n

\* C29: for a complete bipartite filter of m contracts and n events the
\* planner emits exactly min(m, n) windows, each one node with all of its
\* neighbours, and every edge is accepted by exactly one window.
C29_CompleteBipartitePlan ==
    (lf_pc = "planned" /\ CompleteBipartite(MergedFilter)) =>
        /\ ~plan_panicked
        /\ Len(windows) = Smaller(Cardinality(ContractsOf(MergedFilter)),
                                  Cardinality(EventsOf(MergedFilter)))
        /\ \A i \in DOMAIN windows :
              \/ /\ Cardinality(windows[i].contracts) = 1
                 /\ windows[i].event_signatures = EventsOf(MergedFilter)
              \/ /\ Cardinality(windows[i].event_signatures) = 1
                 /\ windows[i].contracts = ContractsOf(MergedFilter)
        /\ \A ed \in EdgeSet(MergedFilter.contracts_and_events_graph) :
              Cardinality({i \in DOMAIN windows :
                              WindowAccepts(windows[i], ed[1], ed[2])}) = 1

\* C29 witness: three contracts subscribed to the same two events were
\* planned as two windows.
C29_Witness ==
    /\ lf_pc = "planned"
    /\ EdgeSet(MergedFilter.contracts_and_events_graph) = Contracts \X EventSigs
    /\ MergedFilter.wildcard_events = {}
    /\ Len(windows) = 2
    /\ \A i \in DOMAIN windows : windows[i].contracts = Contracts

\* The windows that name contracts.
NonWildcardWindows == {i \in DOMAIN windows : windows[i].contracts # {}}

\* A set of nodes that touches every edge of the filter's graph.
IsVertexCover(f, K) ==
    \A ed \in EdgeSet(f.contracts_and_events_graph) :
        ContractNode(ed[1]) \in K \/ EventNode(ed[2]) \in K

\* The vertex covers compared with: every set of nodes over the three
\* contracts and two events, and each side of the filter's graph.
CoversConsidered(f) ==
    {K \in SUBSET ({ContractNode(a) : a \in Contracts}
                      \cup {EventNode(e) : e \in EventSigs}) :
        IsVertexCover(f, K)}
      \cup {{ContractNode(a) : a \in ContractsOf(f)},
            {EventNode(e) : e \in EventsOf(f)}}

\* C30 as stated: the number of non-wildcard windows is at most twice the
\* size of a minimum vertex cover, that is of every vertex cover.
C30_TwiceMinimumCover ==
    lf_pc \in {"planned", "replanned"} =>
        \A K \in CoversConsidered(MergedFilter) :
            Cardinality(NonWildcardWindows) <= 2 * Cardinality(K)

\* The node a non-wildcard window is built around.
Centre(w) ==
    IF Cardinality(w.contracts) = 1
    THEN ContractNode(CHOOSE a \in w.contracts : TRUE)
    ELSE EventNode(CHOOSE e \in w.event_signatures : TRUE)

\* The filter's graph lies within the three contracts and two events.
SmallGraph(f) ==
    /\ ContractsOf(f) \subseteq Contracts
    /\ EventsOf(f) \subseteq EventSigs

\* C30 amended: the nodes the non-wildcard windows are built around form a
\* vertex cover, so the windows are at least as many as a minimum cover and
\* at most as many as the edges; they are at most twice a minimum cover for
\* graphs of up to three contracts and two events, not in general.
C30_WindowsBetweenCoverAndEdges ==
    lf_pc \in {"planned", "replanned"} =>
        /\ IsVertexCover(MergedFilter,
                         {Centre(windows[i]) : i \in NonWildcardWindows})
        /\ Cardinality(NonWildcardWindows)
              <= EdgeCount(MergedFilter.contracts_and_events_graph)
        /\ SmallGraph(MergedFilter) =>
              \A K \in CoversConsidered(MergedFilter) :
                  Cardinality(NonWildcardWindows) <= 2 * Cardinality(K)

\* C30 witness: a plan of more windows than twice the events of the filter,
\* which are a vertex cover.
C30_Witness ==
    /\ lf_pc = "planned"
    /\ IsVertexCover(MergedFilter, {EventNode(e) : e \in EventsOf(MergedFilter)})
    /\ Cardinality(NonWildcardWindows)
          > 2 * Cardinality(EventsOf(MergedFilter))

====
